---- MODULE Spec2Model ----
(***************************************************************************)
(* TPUSpawnStrategy (lightning_lite/lite/strategies/tpu_spawn.py): one      *)
(* parent process that owns the strategy object, and the worker processes   *)
(* the launcher forks from it.  Every process has its own copy of the       *)
(* strategy's fields; the XLA mesh joins the workers in the collectives.    *)
(* With it, the checkpoint_io property and the teardown of SingleTPUStrategy *)
(* (single_tpu.py) and the optimizer_step of ColossalAIPrecisionPlugin       *)
(* (pytorch_lightning/plugins/precision/colossalai.py).                      *)
(***************************************************************************)
EXTENDS Integers, Sequences, FiniteSets, TLC

\* ------------------------------------------------------------------ bounds
MaxProcs == 2
MaxVal == 1
MaxCalls == 2
MaxDepth == 2

\* ---------------------------------------------------------------- processes
Workers == 0 .. (MaxProcs - 1)
Parent == MaxProcs
Procs == Workers \cup {Parent}

VARIABLES
    num_processes,        \* len(parallel_devices): the processes the launcher forks
    pc,                   \* where each process is
    launched,             \* TPUSpawnStrategy._launched
    global_rank,          \* rank state of the strategy of each process
    local_rank,
    world_size,
    rank_zero_only_rank,  \* rank_zero_only.rank, a global of each process
    environ,              \* os.environ of each process: the names that are set
    checkpoint_io,        \* TPUSpawnStrategy._checkpoint_io
    module_device,        \* the device of the module a process last placed
    mesh,                 \* what each process has handed to the collective it is blocked in
    delivered,            \* what the collective handed back
    frame,                \* the arguments of the call a process is in the middle of
    ret,                  \* the call a process completed last, and its outcome
    created,              \* the XLACheckpointIO instances each process has built so far
    calls,                \* history: the checkpoint and teardown calls each process made
    io,                   \* history: the calls that reached the CheckpointIO collaborator
    fs,                   \* history: what each process did to the filesystem
    barrier_calls,        \* history: barrier calls entered / returned, per process
    barrier_returns,
    single_tpu,           \* a SingleTPUStrategy, in the process of the parent
    optimizer_steps       \* history: the optimizer_step calls of a ColossalAIPrecisionPlugin

vars == << num_processes, pc, launched, global_rank, local_rank, world_size,
           rank_zero_only_rank, environ, checkpoint_io, module_device, mesh, delivered, frame,
           ret, created, calls, io, fs, barrier_calls, barrier_returns, single_tpu,
           optimizer_steps >>

rankVars == << global_rank, local_rank, world_size, rank_zero_only_rank >>
histVars == << calls, io, fs, barrier_calls, barrier_returns >>
collVars == << mesh, delivered, frame >>
objVars == << single_tpu, optimizer_steps >>

\* ------------------------------------------------------------ python values
PyNone == [type |-> "NoneType"]
PyInt(v) == [type |-> "int", v |-> v]
PyBool(b) == [type |-> "bool", v |-> b]
PyStr(s) == [type |-> "str", v |-> s]
ReduceOpMember(name) == [type |-> "ReduceOp", v |-> name]
Raise(exc, msg) == [type |-> "raise", exc |-> exc, msg |-> msg]
IsRaise(x) == x.type = "raise"

\* a CheckpointIO collaborator: its class, and which instance of the class it is
CheckpointIO(cls, id) == [type |-> "CheckpointIO", cls |-> cls, id |-> id]

\* XLACheckpointIO(): the n-th instance a process builds
XLACheckpointIO(n) == CheckpointIO("XLACheckpointIO", n)

\* the collaborators a caller may hand to a strategy
GivenIO == {CheckpointIO("CheckpointIO", 0)}

\* what a caller may hand to the setter of checkpoint_io: a collaborator, or None
SetterInputs == {PyNone, CheckpointIO("CheckpointIO", 1)}

\* a call that completed: its name, its arguments, its outcome, and whether the
\* handler evaluated self.root_device on the way
Done(op, arg, out, dev) == [op |-> op, arg |-> arg, out |-> out, dev |-> dev]
NoCall == Done("none", PyNone, PyNone, FALSE)

\* ------------------------------------------------------------- root_device
xla_device(p) == [type |-> "device", kind |-> "xla", ordinal |-> p]

\* mutant: the property without its guard
root_device_unguarded(p) == xla_device(p)

root_device(p) ==
    IF ~launched[p]
    THEN Raise("RuntimeError",
               "Accessing the XLA device before processes have spawned is not allowed.")
    ELSE xla_device(p)

\* ------------------------------------------------------------ is_distributed
\* mutant: the environment indicator alone
is_distributed_env_only(p) == "HOST_WORLD_SIZE" \in environ[p]

is_distributed(p) == ("HOST_WORLD_SIZE" \in environ[p]) /\ world_size[p] # 1

\* -------------------------------------------------------------------- Init
Init ==
    /\ num_processes \in 1 .. MaxProcs
    /\ pc = [p \in Procs |-> IF p = Parent THEN "idle" ELSE "absent"]
    /\ launched = [p \in Procs |-> FALSE]
    /\ global_rank = [p \in Procs |-> 0]
    /\ local_rank = [p \in Procs |-> 0]
    /\ world_size = [p \in Procs |-> 1]
    /\ rank_zero_only_rank = [p \in Procs |-> 0]
    /\ \E e \in {{}, {"PT_XLA_DEBUG"}} : environ = [p \in Procs |-> e]
    /\ \E c \in {PyNone} \cup GivenIO : checkpoint_io = [p \in Procs |-> c]
    /\ created = [p \in Procs |-> 0]
    /\ module_device = [p \in Procs |-> [type |-> "device", kind |-> "cpu", ordinal |-> 0]]
    /\ mesh = [p \in Procs |-> PyNone]
    /\ delivered = [p \in Procs |-> PyNone]
    /\ frame = [p \in Procs |-> PyNone]
    /\ ret = [p \in Procs |-> NoCall]
    /\ calls = [p \in Procs |-> << >>]
    /\ io = [p \in Procs |-> << >>]
    /\ fs = [p \in Procs |-> << >>]
    /\ barrier_calls = [p \in Procs |-> 0]
    /\ barrier_returns = [p \in Procs |-> 0]
    /\ single_tpu = [_checkpoint_io |-> checkpoint_io[Parent], created |-> 0,
                     calls |-> << >>, ret |-> NoCall]
    /\ optimizer_steps = << >>

\* ----------------------------------------------------------------- launcher
Spawned == 0 .. (num_processes - 1)

\* The launcher forks num_processes workers from the parent: each starts with a
\* copy of the parent's strategy and environment, with HOST_WORLD_SIZE set by the
\* spawn, and the parent waits for them.  The histories are those of the run.
Launch ==
    /\ pc[Parent] = "idle"
    /\ pc' = [p \in Procs |-> IF p = Parent THEN "joining"
                              ELSE IF p \in Spawned THEN "spawned" ELSE "absent"]
    /\ environ' = [p \in Procs |-> IF p \in Spawned
                                   THEN environ[Parent] \cup {"HOST_WORLD_SIZE"}
                                   ELSE environ[p]]
    /\ checkpoint_io' = [p \in Procs |-> checkpoint_io[Parent]]
    /\ created' = [p \in Procs |-> created[Parent]]
    /\ ret' = [p \in Procs |-> NoCall]
    /\ calls' = [p \in Procs |-> << >>]
    /\ io' = [p \in Procs |-> << >>]
    /\ fs' = [p \in Procs |-> << >>]
    /\ barrier_calls' = [p \in Procs |-> 0]
    /\ barrier_returns' = [p \in Procs |-> 0]
    /\ UNCHANGED << num_processes, objVars, launched, rankVars, module_device, collVars >>

\* DDPSpawnStrategy.set_world_ranks: the ranks and the world size of a process,
\* from the process index the launcher gave it
set_world_ranks(p, process_idx) ==
    /\ local_rank' = [local_rank EXCEPT ![p] = process_idx]
    /\ global_rank' = [global_rank EXCEPT ![p] = process_idx]
    /\ world_size' = [world_size EXCEPT ![p] = num_processes]

\* mutant: set_world_ranks is not called
_worker_setup_no_ranks(p, process_idx) ==
    /\ launched' = [launched EXCEPT ![p] = TRUE]
    /\ UNCHANGED << local_rank, global_rank, world_size >>
    /\ rank_zero_only_rank' = [rank_zero_only_rank EXCEPT ![p] = global_rank'[p]]

\* mutant: the flag is set before the ranks are
_worker_setup_flag_first(p, process_idx) ==
    /\ launched' = [launched EXCEPT ![p] = TRUE]
    /\ rank_zero_only_rank' = [rank_zero_only_rank EXCEPT ![p] = global_rank[p]]
    /\ set_world_ranks(p, process_idx)

_worker_setup(p, process_idx) ==
    /\ launched' = [launched EXCEPT ![p] = TRUE]
    /\ set_world_ranks(p, process_idx)
    /\ rank_zero_only_rank' = [rank_zero_only_rank EXCEPT ![p] = global_rank'[p]]

\* the entry point of a worker: worker setup first, then the user's function
WorkerSetup(p) ==
    /\ pc[p] = "spawned"
    /\ _worker_setup(p, p)
    /\ pc' = [pc EXCEPT ![p] = "idle"]
    /\ UNCHANGED << num_processes, created, objVars, environ, checkpoint_io, module_device, collVars, ret,
                    histVars >>

\* worker setup called once more in a worker that ran it, with the process index
\* the launcher gave the worker
WorkerSetupAgain(p) ==
    /\ pc[p] = "idle"
    /\ p \in Spawned
    /\ Len(calls[p]) < MaxCalls
    /\ calls' = [calls EXCEPT ![p] = Append(@, [m |-> "_worker_setup", arg |-> PyInt(p)])]
    /\ _worker_setup(p, p)
    /\ UNCHANGED << num_processes, created, objVars, pc, environ, checkpoint_io, module_device,
                    collVars, ret, io, fs, barrier_calls, barrier_returns >>

\* ------------------------------------------------------- device operations
Returns(p, op, arg, out, dev) ==
    /\ ret' = [ret EXCEPT ![p] = Done(op, arg, out, dev)]
    /\ pc' = [pc EXCEPT ![p] = "idle"]

ReadRootDevice(p) ==
    /\ pc[p] = "idle"
    /\ Returns(p, "root_device", PyNone, root_device(p), TRUE)
    /\ UNCHANGED << num_processes, created, objVars, launched, rankVars, environ, checkpoint_io,
                    module_device, collVars, histVars >>

ReadIsDistributed(p) ==
    /\ pc[p] = "idle"
    /\ Returns(p, "is_distributed", PyNone, PyBool(is_distributed(p)), FALSE)
    /\ UNCHANGED << num_processes, created, objVars, launched, rankVars, environ, checkpoint_io,
                    module_device, collVars, histVars >>

Modules == {[type |-> "Module", id |-> 1]}

ModuleToDevice(p) ==
    /\ pc[p] = "idle"
    /\ \E module \in Modules :
         LET device == root_device(p) IN
           IF IsRaise(device)
           THEN /\ Returns(p, "module_to_device", module, device, TRUE)
                /\ UNCHANGED module_device
           ELSE /\ Returns(p, "module_to_device", module, PyNone, TRUE)
                /\ module_device' = [module_device EXCEPT ![p] = device]
    /\ UNCHANGED << num_processes, created, objVars, launched, rankVars, environ, checkpoint_io,
                    collVars, histVars >>

\* ---------------------------------------------------------------- tensors
Vals == 0 .. MaxVal

\* a tensor: its dtype, its number of dimensions and its elements in order; the
\* elements of an int64 tensor are integers, those of a float tensor are
\* fractions << numerator, denominator >> in lowest terms
Tensor(dtype, dim, data) == [type |-> "Tensor", dtype |-> dtype, dim |-> dim, data |-> data]
IsTensor(x) == x.type = "Tensor"

RECURSIVE Gcd(_, _)
Gcd(a, b) == IF b = 0 THEN a ELSE Gcd(b, a % b)

Frac(n, d) == LET g == Gcd(n, d) IN << n \div g, d \div g >>

\* mutant: the device is not evaluated
torch_tensor_no_device(value, device) == [type |-> "Tensor", dtype |-> "int64", dim |-> 0,
                                          data |-> << value.v >>]

\* torch.tensor(value, device=device): a number becomes a zero-dimensional tensor;
\* the device is evaluated first, and its error is the call's error
torch_tensor(value, device) ==
    IF IsRaise(device) THEN device ELSE Tensor("int64", 0, << value.v >>)

\* tensor / k
TrueDiv(t, k) ==
    Tensor("float32", t.dim,
           [i \in 1 .. Len(t.data) |->
              IF t.dtype = "int64" THEN Frac(t.data[i], k)
              ELSE Frac(t.data[i][1], t.data[i][2] * k)])

\* a + b, elementwise, of two int64 tensors of one shape
TensorAdd(a, b) ==
    Tensor("int64", a.dim, [i \in 1 .. Len(a.data) |-> a.data[i] + b.data[i]])

\* Python's sum(ts): ts[1] + ts[2] + ...
RECURSIVE PySum(_)
PySum(ts) ==
    IF Len(ts) = 1 THEN ts[1] ELSE TensorAdd(PySum(SubSeq(ts, 1, Len(ts) - 1)), ts[Len(ts)])

\* tensor.unsqueeze(0) of a zero-dimensional tensor
Unsqueeze0(t) == Tensor(t.dtype, t.dim + 1, t.data)

\* torch.cat(ts) along dimension 0 of one-dimensional tensors
RECURSIVE CatData(_)
CatData(ts) ==
    IF Len(ts) = 0 THEN << >> ELSE CatData(SubSeq(ts, 1, Len(ts) - 1)) \o ts[Len(ts)].data

\* ------------------------------------------------------------------ strings
\* a str is the sequence of its characters
LowerOf ==
    ("A" :> "a") @@ ("B" :> "b") @@ ("C" :> "c") @@ ("D" :> "d") @@ ("E" :> "e") @@
    ("F" :> "f") @@ ("G" :> "g") @@ ("H" :> "h") @@ ("I" :> "i") @@ ("J" :> "j") @@
    ("K" :> "k") @@ ("L" :> "l") @@ ("M" :> "m") @@ ("N" :> "n") @@ ("O" :> "o") @@
    ("P" :> "p") @@ ("Q" :> "q") @@ ("R" :> "r") @@ ("S" :> "s") @@ ("T" :> "t") @@
    ("U" :> "u") @@ ("V" :> "v") @@ ("W" :> "w") @@ ("X" :> "x") @@ ("Y" :> "y") @@
    ("Z" :> "z")

\* str.lower()
str_lower(s) == [i \in 1 .. Len(s) |-> IF s[i] \in DOMAIN LowerOf THEN LowerOf[s[i]] ELSE s[i]]

\* ------------------------------------------------------------- the XLA mesh
\* the processes that take part in the collectives a process calls: the workers
\* of the run, or a process that was not spawned alone
MeshGroup(p) == IF p = Parent THEN {Parent} ELSE Spawned

\* the members of a group in ordinal order
MeshOrder(g) == IF g = {Parent} THEN << Parent >> ELSE [i \in 1 .. num_processes |-> i - 1]

Blocked(p) == pc[p] = "blocked"

\* a process hands its contribution to a collective and blocks in it; the call it
\* is in has no outcome yet
Enters(p, coll, tag, data, fr) ==
    /\ mesh' = [mesh EXCEPT ![p] = [type |-> "contribution", coll |-> coll, tag |-> tag,
                                    data |-> data]]
    /\ frame' = [frame EXCEPT ![p] = fr]
    /\ pc' = [pc EXCEPT ![p] = "blocked"]
    /\ ret' = [ret EXCEPT ![p] = NoCall]
    /\ UNCHANGED delivered

\* what a collective hands back once every member has entered it
\* xm.mesh_reduce(tag, data, sum): sum() of the members' data in ordinal order
\* xm.all_gather(tensor): the members' tensors concatenated along dimension 0
\* rendezvous(tag): nothing
MeshResult(g, coll) ==
    LET order == MeshOrder(g)
        datas == [i \in 1 .. Len(order) |-> mesh[order[i]].data]
    IN  CASE coll = "mesh_reduce" -> PySum(datas)
          [] coll = "all_gather" -> Tensor(datas[1].dtype, 1, CatData(datas))
          [] OTHER -> PyNone

\* the runtime completes a collective when all members of the mesh are blocked in
\* the same collective under the same tag (the name of a rendezvous, the element
\* type of an all_gather); until then nobody leaves it
MeshComplete(g) ==
    /\ g # {}
    /\ \A m \in g : Blocked(m)
    /\ \E m0 \in g :
         /\ \A m \in g : mesh[m].coll = mesh[m0].coll /\ mesh[m].tag = mesh[m0].tag
         /\ delivered' = [p \in Procs |-> IF p \in g THEN MeshResult(g, mesh[m0].coll)
                                          ELSE delivered[p]]
    /\ mesh' = [p \in Procs |-> IF p \in g THEN PyNone ELSE mesh[p]]
    /\ pc' = [p \in Procs |-> IF p \in g THEN "resumed" ELSE pc[p]]
    /\ UNCHANGED << num_processes, created, objVars, launched, rankVars, environ, checkpoint_io,
                    module_device, frame, ret, histVars >>

\* a resumed process finishes its call
Resumes(p, op) == pc[p] = "resumed" /\ frame[p].op = op

Finishes(p, out, dev) ==
    /\ Returns(p, frame[p].op, frame[p].arg, out, dev)
    /\ frame' = [frame EXCEPT ![p] = PyNone]
    /\ delivered' = [delivered EXCEPT ![p] = PyNone]
    /\ UNCHANGED mesh

\* the function a worker runs calls one data collective and returns; the owner
\* of a strategy that was not launched calls them as it likes
MayCall(p) == pc[p] = "idle" /\ (p = Parent \/ ret[p] = NoCall)

\* ------------------------------------------------------------------- reduce
Str_sum == << "s", "u", "m" >>
Str_mean == << "m", "e", "a", "n" >>
Str_avg == << "a", "v", "g" >>

\* mutant: every ReduceOp is refused
invalid_reduce_op_any(reduce_op) == reduce_op.type = "ReduceOp"

invalid_reduce_op(reduce_op) == reduce_op.type = "ReduceOp" /\ reduce_op.v # "SUM"

\* mutant: no string is refused
invalid_reduce_op_str_never(reduce_op) == FALSE

invalid_reduce_op_str(reduce_op) ==
    reduce_op.type = "str" /\ str_lower(reduce_op.v) \notin {Str_sum, Str_mean, Str_avg}

\* mutant: the comparison without lower()
divides_by_world_size_exact(reduce_op) ==
    reduce_op.type = "str" /\ reduce_op.v \in {Str_avg, Str_mean}

divides_by_world_size(reduce_op) ==
    reduce_op.type = "str" /\ str_lower(reduce_op.v) \in {Str_avg, Str_mean}

ReduceOutputs == {Tensor("int64", 0, << v >>) : v \in Vals} \cup {PyInt(MaxVal)}

ReduceOps ==
    { PyNone, PyInt(1), ReduceOpMember("SUM"), ReduceOpMember("MAX"),
      PyStr(Str_sum), PyStr(<< "M", "e", "a", "n" >>),
      PyStr(<< "A", "V", "G" >>), PyStr(<< "m", "a", "x" >>) }

ReduceArg(output, reduce_op) == [output |-> output, reduce_op |-> reduce_op]

\* reduce, up to the point where it blocks in xm.mesh_reduce
Reduce(p) ==
    /\ MayCall(p)
    /\ \E output \in ReduceOutputs, reduce_op \in ReduceOps :
         LET arg == ReduceArg(output, reduce_op)
             coerces == ~IsTensor(output)
             tensor == IF coerces THEN torch_tensor(output, root_device(p)) ELSE output
         IN  IF IsRaise(tensor)
             THEN /\ Returns(p, "reduce", arg, tensor, coerces)
                  /\ UNCHANGED collVars
             ELSE IF invalid_reduce_op(reduce_op) \/ invalid_reduce_op_str(reduce_op)
             THEN /\ Returns(p, "reduce", arg,
                             [type |-> "raise", exc |-> "ValueError",
                              msg |-> "Currently, the TPUSpawnStrategy only supports sum, mean, avg for the reduce operation, got:",
                              got |-> reduce_op],
                             coerces)
                  /\ UNCHANGED collVars
             ELSE Enters(p, "mesh_reduce", "reduce", tensor,
                         [op |-> "reduce", arg |-> arg, dev |-> coerces])
    /\ UNCHANGED << num_processes, created, objVars, launched, rankVars, environ, checkpoint_io,
                    module_device, histVars >>

\* reduce, from the return of xm.mesh_reduce
ReduceReturn(p) ==
    /\ Resumes(p, "reduce")
    /\ LET output == delivered[p] IN
         Finishes(p, IF divides_by_world_size(frame[p].arg.reduce_op)
                     THEN TrueDiv(output, world_size[p]) ELSE output,
                  frame[p].dev)
    /\ UNCHANGED << num_processes, created, objVars, launched, rankVars, environ, checkpoint_io,
                    module_device, histVars >>

\* --------------------------------------------------------------- all_gather
\* xm.all_gather takes a tensor of at least one dimension
xm_all_gather_accepts(tensor) == IsTensor(tensor) /\ tensor.dim >= 1

\* mutant: no promotion
all_gather_promote_none(tensor) == tensor

\* the tensor all_gather hands to xm.all_gather
all_gather_promote(tensor) ==
    IF IsTensor(tensor) /\ tensor.dim = 0 THEN Unsqueeze0(tensor) ELSE tensor

GatherInputs ==
    {Tensor("int64", 0, << v >>) : v \in Vals} \cup {Tensor("int64", 1, << v >>) : v \in Vals}

\* all_gather, up to the point where it blocks in xm.all_gather
AllGather(p) ==
    /\ MayCall(p)
    /\ \E tensor \in GatherInputs :
         LET promoted == all_gather_promote(tensor) IN
           IF xm_all_gather_accepts(promoted)
           THEN Enters(p, "all_gather", promoted.dtype, promoted,
                       [op |-> "all_gather", arg |-> tensor, dev |-> FALSE])
           ELSE /\ Returns(p, "all_gather", tensor,
                           Raise("RuntimeError", "all_gather of a zero-dimensional tensor"),
                           FALSE)
                /\ UNCHANGED collVars
    /\ UNCHANGED << num_processes, created, objVars, launched, rankVars, environ, checkpoint_io,
                    module_device, histVars >>

\* all_gather, from the return of xm.all_gather
AllGatherReturn(p) ==
    /\ Resumes(p, "all_gather")
    /\ Finishes(p, delivered[p], FALSE)
    /\ UNCHANGED << num_processes, created, objVars, launched, rankVars, environ, checkpoint_io,
                    module_device, histVars >>

\* ------------------------------------------------------------------ barrier
BarrierNames == {PyNone, PyStr(<< "b" >>)}

\* mutant: barrier never goes to the rendezvous
barrier_rendezvous_never(p) == FALSE

\* whether barrier goes to the rendezvous
barrier_rendezvous(p) == is_distributed(p)

\* barrier, up to the point where it blocks in rendezvous(name), or all of it
Barrier(p) ==
    /\ pc[p] = "idle"
    /\ barrier_calls[p] < MaxCalls
    /\ barrier_calls' = [barrier_calls EXCEPT ![p] = @ + 1]
    /\ \E name \in BarrierNames :
         IF barrier_rendezvous(p)
         THEN /\ Enters(p, "rendezvous", name, PyNone,
                        [op |-> "barrier", arg |-> name, dev |-> FALSE])
              /\ UNCHANGED barrier_returns
         ELSE /\ Returns(p, "barrier", name, PyNone, FALSE)
              /\ barrier_returns' = [barrier_returns EXCEPT ![p] = @ + 1]
              /\ UNCHANGED collVars
    /\ UNCHANGED << num_processes, created, objVars, launched, rankVars, environ, checkpoint_io,
                    module_device, calls, io, fs >>

\* barrier, from the return of rendezvous
BarrierReturn(p) ==
    /\ Resumes(p, "barrier")
    /\ Finishes(p, PyNone, FALSE)
    /\ barrier_returns' = [barrier_returns EXCEPT ![p] = @ + 1]
    /\ UNCHANGED << num_processes, created, objVars, launched, rankVars, environ, checkpoint_io,
                    module_device, calls, io, fs, barrier_calls >>

\* ---------------------------------------------------------------- broadcast
\* an object: its identity and its content, a short list of small numbers
Object(id, val) == [type |-> "object", id |-> id, val |-> val]

Payloads == {<< >>} \cup {<< v >> : v \in Vals}

\* the objects a process may hold; the object torch.load builds is a new one
HeldId == MaxProcs + 1
LoadedId == MaxProcs + 2
BroadcastObjects == {Object(HeldId, val) : val \in Payloads}

\* torch.save(obj, buffer): the length of the content, then the content
torch_save(obj) == << Len(obj.val) >> \o obj.val

\* torch.tensor(data, device=device, dtype=torch.float) of a byte array
float_tensor(data, device) ==
    IF IsRaise(device) THEN device
    ELSE Tensor("float32", 1, [i \in 1 .. Len(data) |-> Frac(data[i], 1)])

\* tensor.cpu().byte().numpy(): the bytes of a float tensor
ByteRange == 256
tensor_bytes(t) == [i \in 1 .. Len(t.data) |-> (t.data[i][1] \div t.data[i][2]) % ByteRange]

\* mutant: everything after the length is taken for the content
torch_load_whole_stream(bytes) == Object(LoadedId, SubSeq(bytes, 2, Len(bytes)))

\* torch.load(buffer): the first object of the stream
torch_load(bytes) == Object(LoadedId, SubSeq(bytes, 2, bytes[1] + 1))

\* mutant: broadcast always serializes
broadcast_returns_input_never(p) == FALSE

\* whether broadcast returns its argument as it is
broadcast_returns_input(p) == ~is_distributed(p)

\* broadcast, up to the point where it blocks in xm.all_gather, or all of it
Broadcast(p) ==
    /\ MayCall(p)
    /\ \E obj \in BroadcastObjects :
         IF broadcast_returns_input(p)
         THEN /\ Returns(p, "broadcast", obj, obj, FALSE)
              /\ UNCHANGED collVars
         ELSE LET data_tensor == float_tensor(torch_save(obj), root_device(p)) IN
                IF IsRaise(data_tensor)
                THEN /\ Returns(p, "broadcast", obj, data_tensor, TRUE)
                     /\ UNCHANGED collVars
                ELSE Enters(p, "all_gather", data_tensor.dtype, data_tensor,
                            [op |-> "broadcast", arg |-> obj, dev |-> TRUE])
    /\ UNCHANGED << num_processes, created, objVars, launched, rankVars, environ, checkpoint_io,
                    module_device, histVars >>

\* broadcast, from the return of xm.all_gather
BroadcastReturn(p) ==
    /\ Resumes(p, "broadcast")
    /\ Finishes(p, torch_load(tensor_bytes(delivered[p])), TRUE)
    /\ UNCHANGED << num_processes, created, objVars, launched, rankVars, environ, checkpoint_io,
                    module_device, histVars >>

\* ------------------------------------------------------- process_dataloader
DataLoader(id, sized) == [type |-> "DataLoader", dataset |-> [id |-> id, has_len |-> sized]]

\* containers of dataloaders: a list of items, a dict of keys and values in the
\* order they were put in
PyList(items) == [type |-> "list", items |-> items]
PyDict(items) == [type |-> "dict", items |-> items]

\* has_len(dataloader): whether len() of the object is defined; it is for a
\* container, and for a dataloader when its dataset defines a length
has_len(dataloader) ==
    IF dataloader.type = "DataLoader" THEN dataloader.dataset.has_len ELSE TRUE

\* mutant: no dataloader is refused
check_has_len_accepts(dataloader) == PyNone

check_has_len(dataloader) ==
    IF ~has_len(dataloader)
    THEN Raise("TypeError",
               "TPUs do not currently support IterableDataset objects, the dataset must implement __len__.")
    ELSE PyNone

DataLoaders == {DataLoader(HeldId, TRUE), DataLoader(HeldId, FALSE)}

\* the dataloaders and the containers of them, nested up to a depth
RECURSIVE Collections(_)
Collections(depth) ==
    IF depth = 0 THEN DataLoaders
    ELSE LET inner == Collections(depth - 1) IN
           DataLoaders
           \cup {PyList(items) : items \in UNION {[1 .. n -> inner] : n \in 0 .. 2}}
           \cup {PyDict(<< >>)}
           \cup {PyDict(<< [key |-> "a", value |-> v] >>) : v \in inner}

\* apply_to_collection(data, dtype=object, wrong_dtype=wrong_dtype,
\* function=check_has_len): the function is applied to what is not of a wrong
\* type, and a sequence or a mapping of a wrong type is gone through, item by
\* item in order; the first error is the call's error
RECURSIVE apply_to_collection(_, _)
apply_to_collection(data, wrong_dtype) ==
    IF data.type \notin wrong_dtype THEN check_has_len(data)
    ELSE LET values == IF data.type = "dict"
                       THEN [i \in 1 .. Len(data.items) |-> data.items[i].value]
                       ELSE data.items
             outs == [i \in 1 .. Len(values) |-> apply_to_collection(values[i], wrong_dtype)]
             raised == {i \in 1 .. Len(outs) : IsRaise(outs[i])}
         IN  IF raised # {} THEN outs[CHOOSE i \in raised : \A j \in raised : i <= j]
             ELSE PyNone

\* mutant: mappings are not gone through
_validate_dataloader_sequences(dataloaders) == apply_to_collection(dataloaders, {"list"})

\* wrong_dtype=(Sequence, Mapping)
_validate_dataloader(dataloaders) == apply_to_collection(dataloaders, {"list", "dict"})

\* a call of the static method, on dataloaders in containers; the method keeps
\* no state, and a behaviour makes one call of it
ValidateDataloader ==
    /\ pc[Parent] = "idle"
    /\ ret[Parent] = NoCall
    /\ \E dataloaders \in Collections(MaxDepth) :
         Returns(Parent, "_validate_dataloader", dataloaders,
                 _validate_dataloader(dataloaders), FALSE)
    /\ UNCHANGED << num_processes, created, objVars, launched, rankVars, environ, checkpoint_io,
                    module_device, collVars, histVars >>

ProcessDataloader(p) ==
    /\ pc[p] = "idle"
    /\ \E dataloader \in DataLoaders :
         LET checked == _validate_dataloader(dataloader)
             device == root_device(p)
         IN  IF IsRaise(checked)
             THEN Returns(p, "process_dataloader", dataloader, checked, FALSE)
             ELSE IF IsRaise(device)
             THEN Returns(p, "process_dataloader", dataloader, device, TRUE)
             ELSE Returns(p, "process_dataloader", dataloader,
                          [type |-> "MpDeviceLoader", loader |-> dataloader,
                           device |-> device, dataset |-> dataloader.dataset],
                          TRUE)
    /\ UNCHANGED << num_processes, created, objVars, launched, rankVars, environ, checkpoint_io,
                    module_device, collVars, histVars >>

\* -------------------------------------------------------------- checkpoints
\* mutant: the default is built and returned, but not kept
checkpoint_io_fget_unstored(_checkpoint_io, n) ==
    IF _checkpoint_io = PyNone
    THEN [_checkpoint_io |-> PyNone, created |-> n + 1, value |-> XLACheckpointIO(n + 1)]
    ELSE [_checkpoint_io |-> _checkpoint_io, created |-> n, value |-> _checkpoint_io]

\* the getter of the checkpoint_io property, of a strategy whose field is
\* _checkpoint_io in a process that built n instances of the default: the field
\* after the read, the instances built, and the value the read returns
checkpoint_io_fget(_checkpoint_io, n) ==
    IF _checkpoint_io = PyNone
    THEN [_checkpoint_io |-> XLACheckpointIO(n + 1), created |-> n + 1,
          value |-> XLACheckpointIO(n + 1)]
    ELSE [_checkpoint_io |-> _checkpoint_io, created |-> n, value |-> _checkpoint_io]

\* the setter of the checkpoint_io property: the field after it
checkpoint_io_fset(io_) == io_

\* a read of self.checkpoint_io by the strategy of process p
checkpoint_io_get(p) == checkpoint_io_fget(checkpoint_io[p], created[p])

Checkpoints == {[type |-> "dict", id |-> HeldId]}
Paths == {"a.ckpt"}
StorageOptions == {PyNone, PyStr(<< "o" >>)}

\* CheckpointIO.save_checkpoint as the collaborator's contract has it: of the
\* ranks that call it, rank zero alone writes the file
io_save_writes(p) == global_rank[p] = 0

\* mutant: save_checkpoint guarded like remove_checkpoint
save_checkpoint_delegates_rank_zero(p) == local_rank[p] = 0

\* whether save_checkpoint hands the call to the collaborator
save_checkpoint_delegates(p) == TRUE

\* mutant: remove_checkpoint without its guard
remove_checkpoint_delegates_always(p) == TRUE

\* whether remove_checkpoint hands the call to the collaborator
remove_checkpoint_delegates(p) == local_rank[p] = 0

SaveCheckpoint(p) ==
    /\ pc[p] = "idle"
    /\ Len(calls[p]) < MaxCalls
    /\ \E checkpoint \in Checkpoints, filepath \in Paths, storage_options \in StorageOptions :
         LET n == Len(calls[p]) + 1
             arg == [checkpoint |-> checkpoint, filepath |-> filepath,
                     storage_options |-> storage_options]
         IN  /\ calls' = [calls EXCEPT ![p] = Append(@, [m |-> "save_checkpoint", arg |-> arg])]
             /\ IF save_checkpoint_delegates(p)
                THEN /\ checkpoint_io' = [checkpoint_io EXCEPT
                                           ![p] = checkpoint_io_get(p)._checkpoint_io]
                     /\ created' = [created EXCEPT ![p] = checkpoint_io_get(p).created]
                     /\ io' = [io EXCEPT ![p] = Append(@, [m |-> "save_checkpoint", n |-> n,
                                                            to |-> checkpoint_io_get(p).value,
                                                            arg |-> arg])]
                     /\ fs' = [fs EXCEPT ![p] =
                                 IF io_save_writes(p)
                                 THEN Append(@, [m |-> "write", n |-> n, filepath |-> filepath,
                                                 checkpoint |-> checkpoint])
                                 ELSE @]
                ELSE UNCHANGED << checkpoint_io, created, io, fs >>
             /\ Returns(p, "save_checkpoint", arg, PyNone, FALSE)
    /\ UNCHANGED << num_processes, objVars, launched, rankVars, environ, module_device,
                    collVars, barrier_calls, barrier_returns >>

RemoveCheckpoint(p) ==
    /\ pc[p] = "idle"
    /\ Len(calls[p]) < MaxCalls
    /\ \E filepath \in Paths :
         LET n == Len(calls[p]) + 1
             arg == [filepath |-> filepath]
         IN  /\ calls' = [calls EXCEPT ![p] = Append(@, [m |-> "remove_checkpoint", arg |-> arg])]
             /\ IF remove_checkpoint_delegates(p)
                THEN /\ checkpoint_io' = [checkpoint_io EXCEPT
                                           ![p] = checkpoint_io_get(p)._checkpoint_io]
                     /\ created' = [created EXCEPT ![p] = checkpoint_io_get(p).created]
                     /\ io' = [io EXCEPT ![p] = Append(@, [m |-> "remove_checkpoint", n |-> n,
                                                            to |-> checkpoint_io_get(p).value,
                                                            arg |-> arg])]
                     /\ fs' = [fs EXCEPT ![p] = Append(@, [m |-> "remove", n |-> n,
                                                            filepath |-> filepath])]
                ELSE UNCHANGED << checkpoint_io, created, io, fs >>
             /\ Returns(p, "remove_checkpoint", arg, PyNone, FALSE)
    /\ UNCHANGED << num_processes, objVars, launched, rankVars, environ, module_device,
                    collVars, barrier_calls, barrier_returns >>

\* a read of the checkpoint_io property
ReadCheckpointIo(p) ==
    /\ pc[p] = "idle"
    /\ LET read == checkpoint_io_get(p) IN
         /\ checkpoint_io' = [checkpoint_io EXCEPT ![p] = read._checkpoint_io]
         /\ created' = [created EXCEPT ![p] = read.created]
         /\ Returns(p, "checkpoint_io", PyNone, read.value, FALSE)
    /\ UNCHANGED << num_processes, objVars, launched, rankVars, environ, module_device,
                    collVars, histVars >>

\* an assignment to the checkpoint_io property
SetCheckpointIo(p) ==
    /\ pc[p] = "idle"
    /\ Len(calls[p]) < MaxCalls
    /\ \E io_ \in SetterInputs :
         /\ calls' = [calls EXCEPT ![p] = Append(@, [m |-> "checkpoint_io.setter", arg |-> io_])]
         /\ checkpoint_io' = [checkpoint_io EXCEPT ![p] = checkpoint_io_fset(io_)]
         /\ Returns(p, "checkpoint_io.setter", io_, PyNone, FALSE)
    /\ UNCHANGED << num_processes, created, objVars, launched, rankVars, environ,
                    module_device, collVars, io, fs, barrier_calls, barrier_returns >>

\* ----------------------------------------------------------------- teardown
\* mutant: pop without a default
environ_pop_strict(env, name) ==
    IF name \in env THEN [environ |-> env \ {name}, out |-> PyNone]
    ELSE [environ |-> env, out |-> Raise("KeyError", name)]

\* os.environ.pop(name, None): the environment after it, and its outcome
environ_pop(env, name) == [environ |-> env \ {name}, out |-> PyNone]

\* mutant: teardown puts the strategy back as it was built
teardown_launched_reset(p) == FALSE

\* _launched after teardown: teardown does not assign it
teardown_launched(p) == launched[p]

\* teardown: the teardown of the base classes, which tears the collaborators
\* down and reads no device handle, then the debug flag is dropped
Teardown(p) ==
    /\ pc[p] = "idle"
    /\ Len(calls[p]) < MaxCalls
    /\ calls' = [calls EXCEPT ![p] = Append(@, [m |-> "teardown", arg |-> PyNone])]
    /\ launched' = [launched EXCEPT ![p] = teardown_launched(p)]
    /\ LET popped == environ_pop(environ[p], "PT_XLA_DEBUG") IN
         /\ environ' = [environ EXCEPT ![p] = popped.environ]
         /\ Returns(p, "teardown", PyNone, popped.out, FALSE)
    /\ UNCHANGED << num_processes, created, objVars, rankVars, checkpoint_io, module_device,
                    collVars, io, fs, barrier_calls, barrier_returns >>

\* -------------------------------------------------------- SingleTPUStrategy
\* the getter of SingleTPUStrategy.checkpoint_io: the field after the read, the
\* instances of the default built, and the value the read returns
single_checkpoint_io_fget(_checkpoint_io, n) ==
    IF _checkpoint_io = PyNone
    THEN [_checkpoint_io |-> XLACheckpointIO(n + 1), created |-> n + 1,
          value |-> XLACheckpointIO(n + 1)]
    ELSE [_checkpoint_io |-> _checkpoint_io, created |-> n, value |-> _checkpoint_io]

\* the setter of SingleTPUStrategy.checkpoint_io: the field after it
single_checkpoint_io_fset(io_) == io_

SingleReadCheckpointIo ==
    /\ LET read == single_checkpoint_io_fget(single_tpu._checkpoint_io, single_tpu.created) IN
         single_tpu' = [single_tpu EXCEPT !._checkpoint_io = read._checkpoint_io,
                                          !.created = read.created,
                                          !.ret = Done("checkpoint_io", PyNone, read.value, FALSE)]
    /\ UNCHANGED << num_processes, pc, launched, rankVars, environ, checkpoint_io,
                    module_device, collVars, ret, created, histVars, optimizer_steps >>

SingleSetCheckpointIo ==
    /\ Len(single_tpu.calls) < MaxCalls
    /\ \E io_ \in SetterInputs :
         single_tpu' = [single_tpu EXCEPT
                          !._checkpoint_io = single_checkpoint_io_fset(io_),
                          !.calls = Append(@, [m |-> "checkpoint_io.setter", arg |-> io_]),
                          !.ret = Done("checkpoint_io.setter", io_, PyNone, FALSE)]
    /\ UNCHANGED << num_processes, pc, launched, rankVars, environ, checkpoint_io,
                    module_device, collVars, ret, created, histVars, optimizer_steps >>

\* SingleTPUStrategy.teardown, in the process of the parent: the teardown of the
\* base classes, then the debug flag is dropped
SingleTeardown ==
    /\ Len(single_tpu.calls) < MaxCalls
    /\ LET popped == environ_pop(environ[Parent], "PT_XLA_DEBUG") IN
         /\ environ' = [environ EXCEPT ![Parent] = popped.environ]
         /\ single_tpu' = [single_tpu EXCEPT
                             !.calls = Append(@, [m |-> "teardown", arg |-> PyNone]),
                             !.ret = Done("teardown", PyNone, popped.out, FALSE)]
    /\ UNCHANGED << num_processes, pc, launched, rankVars, checkpoint_io, module_device,
                    collVars, ret, created, histVars, optimizer_steps >>

\* ------------------------------------------------ ColossalAIPrecisionPlugin
\* the models optimizer_step is given: a LightningModule under automatic or
\* manual optimization, or a module that is not a LightningModule
Models ==
    {[type |-> "LightningModule", automatic_optimization |-> b] : b \in BOOLEAN}
    \cup {[type |-> "Module"]}

\* what the closure returns: None, or the loss
ClosureResults == {PyNone} \cup {Tensor("float32", 0, << Frac(v, 1) >>) : v \in Vals}

\* mutant: the model is not looked at
raises_misconfiguration_any_model(model, closure_result) == closure_result = PyNone

\* the test optimizer_step makes after the closure and the hook
raises_misconfiguration(model, closure_result) ==
    LET skipped_backward == closure_result = PyNone IN
      model.type = "LightningModule" /\ model.automatic_optimization /\ skipped_backward

\* optimizer_step: the calls it makes in order, and its outcome
OptimizerStep ==
    /\ Len(optimizer_steps) < MaxCalls
    /\ \E model \in Models, closure_result \in ClosureResults :
         LET arg == [model |-> model, closure_result |-> closure_result]
             made == << "closure", "_after_closure" >>
         IN  optimizer_steps' = Append(optimizer_steps,
               IF raises_misconfiguration(model, closure_result)
               THEN [arg |-> arg, made |-> made,
                     out |-> Raise("MisconfigurationException",
                                   "Skipping backward by returning None from your training_step is not supported by Colossalai")]
               ELSE [arg |-> arg, made |-> Append(made, "optimizer.step"), out |-> PyNone])
    /\ UNCHANGED << num_processes, pc, launched, rankVars, environ, checkpoint_io,
                    module_device, collVars, ret, created, histVars, single_tpu >>

\* ----------------------------------------------------------- specification
NextLaunch ==
    \/ Launch
    \/ \E p \in Procs : WorkerSetup(p)

NextMesh == \E g \in {{Parent}, Spawned} : MeshComplete(g)

\* the strategy of a run that was never launched
NextUnlaunched ==
    \/ ReadRootDevice(Parent)
    \/ ReadIsDistributed(Parent)
    \/ ModuleToDevice(Parent)
    \/ ProcessDataloader(Parent)
    \/ Reduce(Parent)
    \/ ReduceReturn(Parent)
    \/ AllGather(Parent)
    \/ AllGatherReturn(Parent)
    \/ Barrier(Parent)
    \/ Broadcast(Parent)
    \/ MeshComplete({Parent})

NextDevice ==
    \/ NextLaunch
    \/ \E p \in Procs : ReadRootDevice(p)
    \/ \E p \in Procs : ReadIsDistributed(p)
    \/ \E p \in Procs : ModuleToDevice(p)
    \/ \E p \in Procs : ProcessDataloader(p)

NextReduce ==
    \/ NextLaunch
    \/ NextMesh
    \/ \E p \in Procs : Reduce(p)
    \/ \E p \in Procs : ReduceReturn(p)

NextGather ==
    \/ NextLaunch
    \/ NextMesh
    \/ \E p \in Procs : AllGather(p)
    \/ \E p \in Procs : AllGatherReturn(p)

NextBarrier ==
    \/ NextLaunch
    \/ NextMesh
    \/ \E p \in Procs : Barrier(p)
    \/ \E p \in Procs : BarrierReturn(p)

NextBroadcast ==
    \/ NextLaunch
    \/ NextMesh
    \/ \E p \in Procs : Broadcast(p)
    \/ \E p \in Procs : BroadcastReturn(p)

NextCheckpoint ==
    \/ NextLaunch
    \/ \E p \in Procs : SaveCheckpoint(p)
    \/ \E p \in Procs : RemoveCheckpoint(p)

NextValidate == ValidateDataloader

NextColossalAI == OptimizerStep

\* the setup and the teardown of the strategies of a run
NextSetupTeardown ==
    \/ NextLaunch
    \/ \E p \in Workers : WorkerSetupAgain(p)
    \/ \E p \in Procs : Teardown(p)
    \/ \E p \in Procs : ReadRootDevice(p)
    \/ SingleTeardown

\* the reads of and the assignments to the checkpoint_io property of a
\* TPUSpawnStrategy and of a SingleTPUStrategy
NextCheckpointIo ==
    \/ ReadCheckpointIo(Parent)
    \/ SetCheckpointIo(Parent)
    \/ SingleReadCheckpointIo
    \/ SingleSetCheckpointIo

\* the life of the strategies of a run: the launch, the operations of the
\* workers, and the teardown
NextLifecycle ==
    \/ NextLaunch
    \/ NextMesh
    \/ \E p \in Workers : WorkerSetupAgain(p)
    \/ \E p \in Procs : Teardown(p)
    \/ \E p \in Workers : Reduce(p)
    \/ \E p \in Workers : ReduceReturn(p)
    \/ \E p \in Workers : AllGather(p)
    \/ \E p \in Workers : AllGatherReturn(p)
    \/ \E p \in Workers : Barrier(p)
    \/ \E p \in Workers : BarrierReturn(p)
    \/ \E p \in Workers : Broadcast(p)
    \/ \E p \in Workers : BroadcastReturn(p)
    \/ \E p \in Workers : ProcessDataloader(p)
    \/ \E p \in Workers : SaveCheckpoint(p)
    \/ \E p \in Workers : RemoveCheckpoint(p)

Next ==
    \/ Launch
    \/ \E p \in Procs : WorkerSetup(p)
    \/ \E p \in Procs : ReadRootDevice(p)
    \/ \E p \in Procs : ReadIsDistributed(p)
    \/ \E p \in Procs : ModuleToDevice(p)
    \/ \E p \in Procs : Reduce(p)
    \/ \E g \in {{Parent}, Spawned} : MeshComplete(g)
    \/ \E p \in Procs : ReduceReturn(p)
    \/ \E p \in Procs : AllGather(p)
    \/ \E p \in Procs : AllGatherReturn(p)
    \/ \E p \in Procs : Barrier(p)
    \/ \E p \in Procs : BarrierReturn(p)
    \/ \E p \in Procs : Broadcast(p)
    \/ \E p \in Procs : BroadcastReturn(p)
    \/ \E p \in Procs : ProcessDataloader(p)
    \/ \E p \in Procs : SaveCheckpoint(p)
    \/ \E p \in Procs : RemoveCheckpoint(p)

Spec == Init /\ [][Next]_vars
SpecUnlaunched == Init /\ [][NextUnlaunched]_vars
SpecDevice == Init /\ [][NextDevice]_vars
SpecReduce == Init /\ [][NextReduce]_vars
SpecGather == Init /\ [][NextGather]_vars
SpecBarrier == Init /\ [][NextBarrier]_vars
SpecBroadcast == Init /\ [][NextBroadcast]_vars
SpecCheckpoint == Init /\ [][NextCheckpoint]_vars
SpecValidate == Init /\ [][NextValidate]_vars
SpecColossalAI == Init /\ [][NextColossalAI]_vars
SpecSetupTeardown == Init /\ [][NextSetupTeardown]_vars
SpecCheckpointIo == Init /\ [][NextCheckpointIo]_vars
SpecLifecycle == Init /\ [][NextLifecycle]_vars

\* the runtime completes a rendezvous that every worker entered, and a worker
\* that was released goes on running
FairBarrier ==
    /\ SpecBarrier
    /\ WF_vars(MeshComplete(Spawned))
    /\ \A p \in Workers : WF_vars(BarrierReturn(p))
\* ------------------------------------------------------------------- claims
\* a worker that ran worker setup; the parent never does
SetUp(p) == p \in Workers /\ pc[p] \notin {"absent", "spawned"}

IsUsageError(x) == x.type = "raise" /\ x.exc = "RuntimeError"

AllWorkersReturned(op) ==
    \A p \in Spawned : pc[p] = "idle" /\ ret[p].op = op /\ ret[p].out.type # "raise"

\* the operations reduce refuses
Refused(op) == op \in {PyStr(<< "m", "a", "x" >>), ReduceOpMember("MAX")}

\* C1: a read of root_device by a process that did not run worker setup raises
\* the RuntimeError; a read by the worker with process index i after its worker
\* setup returns the XLA device of that process, for every i
C1_RootDevice ==
    \A p \in Procs :
        ret[p].op = "root_device" =>
            IF SetUp(p)
            THEN /\ ret[p].out.type = "device"
                 /\ ret[p].out.kind = "xla"
                 /\ ret[p].out.ordinal = p
            ELSE IsUsageError(ret[p].out)

C1_Witness ==
    /\ num_processes = MaxProcs
    /\ \A p \in Workers : ret[p].op = "root_device" /\ ret[p].out.type = "device"

\* C2 as stated: on an UNLAUNCHED strategy none of reduce, all_gather, barrier,
\* distributed broadcast, module_to_device and process_dataloader is performed:
\* the process never enters a collective, and each of these calls, given an
\* input the operation accepts, ends with the usage error of the guard
C2_Original ==
    \A p \in Procs :
        ~launched[p] =>
            /\ pc[p] \notin {"blocked", "resumed"}
            /\ ret[p].op \in {"all_gather", "barrier", "module_to_device"} =>
                   IsUsageError(ret[p].out)
            /\ (ret[p].op = "reduce" /\ ~Refused(ret[p].arg.reduce_op)) =>
                   IsUsageError(ret[p].out)
            /\ (ret[p].op = "process_dataloader" /\ ret[p].arg.dataset.has_len) =>
                   IsUsageError(ret[p].out)
            /\ (ret[p].op = "broadcast" /\ "HOST_WORLD_SIZE" \in environ[p] /\ world_size[p] # 1)
                   => IsUsageError(ret[p].out)

\* C2 as amended: on an UNLAUNCHED strategy the guard stops the calls that read
\* the device handle, and only those: module_to_device, process_dataloader of a
\* dataloader whose dataset has a length, and reduce of a value that is not a
\* tensor end with the usage error and nothing is performed (no module is placed,
\* no collective is entered); reduce of a tensor, all_gather and barrier never
\* end with it; process_dataloader of a dataset without a length ends with the
\* TypeError of the validation; broadcast, never distributed there, returns
C2_GuardedOperations ==
    \A p \in Procs :
        ~launched[p] =>
            /\ ret[p].op = "module_to_device" =>
                   IsUsageError(ret[p].out) /\ module_device[p].kind = "cpu"
            /\ ret[p].op = "process_dataloader" =>
                   /\ ret[p].out.type = "raise"
                   /\ ret[p].out.exc = IF ret[p].arg.dataset.has_len THEN "RuntimeError"
                                       ELSE "TypeError"
            /\ ret[p].op = "reduce" =>
                   (IsUsageError(ret[p].out) <=> ret[p].arg.output.type # "Tensor")
            /\ ret[p].op \in {"all_gather", "barrier", "broadcast"} => ret[p].out.type # "raise"
            /\ pc[p] \in {"blocked", "resumed"} =>
                   \/ frame[p].op = "all_gather"
                   \/ frame[p].op = "reduce" /\ frame[p].arg.output.type = "Tensor"
            /\ ret[p].op # "none" => (IsUsageError(ret[p].out) <=> ret[p].dev)

C2_Witness ==
    /\ ~launched[Parent]
    /\ ret[Parent].op = "reduce"
    /\ ret[Parent].arg.output.type = "int"
    /\ IsUsageError(ret[Parent].out)

\* the scalar a process passed to reduce
ReduceInput(p) ==
    IF ret[p].arg.output.type = "Tensor" THEN ret[p].arg.output.data[1]
    ELSE ret[p].arg.output.v

RECURSIVE ReduceInputSum(_)
ReduceInputSum(n) == IF n = 0 THEN 0 ELSE ReduceInputSum(n - 1) + ReduceInput(n - 1)

SpelledSum == {<< "s", "u", "m" >>}
SpelledMeanAvg == {<< "M", "e", "a", "n" >>, << "A", "V", "G" >>}

\* C3: when all workers of a run called reduce and returned, the result of a
\* worker that passed "sum" is the sum of the workers' scalars, and the result of
\* a worker that passed mean or avg, in whatever case, is that sum divided by the
\* number of workers
C3_ReduceSumMean ==
    AllWorkersReturned("reduce") =>
        \A p \in Spawned :
            LET op == ret[p].arg.reduce_op
                total == ReduceInputSum(num_processes)
                x == ret[p].out.data[1]
            IN  /\ (op.type = "str" /\ op.v \in SpelledSum) =>
                       ret[p].out.dtype = "int64" /\ x = total
                /\ (op.type = "str" /\ op.v \in SpelledMeanAvg) =>
                       /\ ret[p].out.dtype = "float32"
                       /\ x[1] * num_processes = total * x[2]

C3_Witness ==
    /\ num_processes = MaxProcs
    /\ AllWorkersReturned("reduce")
    /\ \E p \in Spawned : ret[p].arg.reduce_op = PyStr(<< "s", "u", "m" >>)
    /\ \E p \in Spawned : /\ ret[p].arg.reduce_op = PyStr(<< "M", "e", "a", "n" >>)
                          /\ ret[p].out.data[1][2] = MaxProcs

\* the operations the claim C4 takes to be outside sum, mean and avg
OutsideSumMeanAvg(op) ==
    ~(op.type = "str" /\ op.v \in SpelledSum \cup SpelledMeanAvg) /\ op # ReduceOpMember("SUM")

\* C4 as stated: reduce with an operation outside sum, mean and avg, None and
\* values of other types among them, never reaches the reduction and ends with
\* the ValueError that names the operation
C4_Original ==
    \A p \in Procs :
        /\ (ret[p].op = "reduce" /\ OutsideSumMeanAvg(ret[p].arg.reduce_op)) =>
               /\ ret[p].out.type = "raise"
               /\ ret[p].out.exc = "ValueError"
               /\ ret[p].out.got = ret[p].arg.reduce_op
        /\ (pc[p] \in {"blocked", "resumed"} /\ frame[p].op = "reduce") =>
               ~OutsideSumMeanAvg(frame[p].arg.reduce_op)

\* C4 as amended: a reduce call whose input is a tensor, or whose strategy is
\* LAUNCHED, ends with the ValueError that names the operation exactly when the
\* operation is a string other than sum, mean, avg (in any case) or a ReduceOp
\* other than SUM, and then never enters the reduction; None and a value that is
\* neither a string nor a ReduceOp are not refused: the reduction is performed
\* and its sum returned undivided.  A call with an input that is not a tensor on
\* an UNLAUNCHED strategy ends with the usage error, whatever the operation
C4_ReduceOpValidation ==
    \A p \in Procs :
        /\ ret[p].op = "reduce" =>
               LET op == ret[p].arg.reduce_op
                   out == ret[p].out
               IN  IF ret[p].arg.output.type # "Tensor" /\ ~SetUp(p)
                   THEN IsUsageError(out)
                   ELSE IF Refused(op)
                   THEN out.type = "raise" /\ out.exc = "ValueError" /\ out.got = op
                   ELSE /\ out.type = "Tensor"
                        /\ op \in {PyNone, PyInt(1), ReduceOpMember("SUM")} =>
                               out.dtype = "int64"
        /\ (pc[p] \in {"blocked", "resumed"} /\ frame[p].op = "reduce") =>
               ~Refused(frame[p].arg.reduce_op)

C4_Witness ==
    \E p \in Workers :
        /\ launched[p]
        /\ ret[p].op = "reduce"
        /\ ret[p].arg.reduce_op = PyStr(<< "m", "a", "x" >>)
        /\ ret[p].out.type = "raise"
        /\ ret[p].out.exc = "ValueError"
        /\ ret[p].out.got = PyStr(<< "m", "a", "x" >>)
\* the places of the filesystem history of p that remove a file in p's n-th call
Removals(p, n) == {i \in DOMAIN fs[p] : fs[p][i].m = "remove" /\ fs[p][i].n = n}

\* the places of the filesystem history of p that write a file in p's n-th call
Writes(p, n) == {i \in DOMAIN fs[p] : fs[p][i].m = "write" /\ fs[p][i].n = n}

\* the places of the collaborator history of p that belong to p's n-th call
Delegations(p, n) == {i \in DOMAIN io[p] : io[p][i].n = n}

\* C5: of the workers of a run, the one with process index 0 alone removes a
\* file: whatever calls the workers make and in whatever order, the n-th call
\* of the workers reaches the filesystem removal at most once altogether, and
\* once when the n-th call of worker 0 is a remove_checkpoint
C5_RemoveOnce ==
    \A n \in 1 .. MaxCalls :
        /\ \A p \in Workers : Removals(p, n) # {} => p = 0 /\ local_rank[p] = 0
        /\ \A p \in Procs : Cardinality(Removals(p, n)) <= 1
        /\ \A p \in Procs :
               (n <= Len(calls[p]) /\ calls[p][n].m = "remove_checkpoint" /\ local_rank[p] = 0)
                   => \E i \in Removals(p, n) : fs[p][i].filepath = calls[p][n].arg.filepath

C5_Witness ==
    /\ num_processes = MaxProcs
    /\ \A p \in Workers : Len(calls[p]) >= 1 /\ calls[p][1].m = "remove_checkpoint"
    /\ Cardinality(Removals(0, 1)) = 1

\* the workers that made an n-th call, and made it a save_checkpoint
SavedAt(n) == {p \in Spawned : n <= Len(calls[p]) /\ calls[p][n].m = "save_checkpoint"}

\* C6: on every rank a save_checkpoint call reaches the collaborator once, with
\* the checkpoint, the path and the storage options of the call; when all
\* workers of a run make their n-th call a save_checkpoint, the checkpoint is
\* written once, by one worker
C6_SaveDelegates ==
    \A n \in 1 .. MaxCalls :
        /\ \A p \in Procs :
               (n <= Len(calls[p]) /\ calls[p][n].m = "save_checkpoint") =>
                   /\ Cardinality(Delegations(p, n)) = 1
                   /\ \A i \in Delegations(p, n) :
                          io[p][i].m = "save_checkpoint" /\ io[p][i].arg = calls[p][n].arg
        /\ (\A p \in Spawned : pc[p] = "idle") /\ SavedAt(n) = Spawned =>
               /\ Cardinality({p \in Spawned : Writes(p, n) # {}}) = 1
               /\ \A p \in Spawned : Cardinality(Writes(p, n)) <= 1

C6_Witness ==
    /\ num_processes = MaxProcs
    /\ \A p \in Workers : pc[p] = "idle"
    /\ SavedAt(1) = Workers
    /\ \A p \in Workers : Cardinality(Delegations(p, 1)) = 1

\* what is_distributed is to be, from the environment and the world size
Distributed(p) == "HOST_WORLD_SIZE" \in environ[p] /\ world_size[p] # 1

\* C7: where is_distributed is false, UNLAUNCHED or LAUNCHED, broadcast returns
\* the very object it was given, reads no device handle and enters no
\* collective
C7_BroadcastIdentity ==
    \A p \in Procs :
        ~Distributed(p) =>
            /\ pc[p] \notin {"blocked", "resumed"}
            /\ ret[p].op = "broadcast" =>
                   /\ ret[p].out = ret[p].arg
                   /\ ret[p].out.id = HeldId
                   /\ ~ret[p].dev

C7_Witness ==
    /\ num_processes = 1
    /\ launched[0]
    /\ ret[0].op = "broadcast"
    /\ ret[0].out = ret[0].arg

\* C8: is_distributed reads true exactly where HOST_WORLD_SIZE is set and the
\* world size is not 1: false in the parent, false in the worker of a run of
\* one process, true in the workers of a run of several
C8_IsDistributed ==
    \A p \in Procs :
        ret[p].op = "is_distributed" =>
            /\ ret[p].out.v = ("HOST_WORLD_SIZE" \in environ[p] /\ world_size[p] # 1)
            /\ p = Parent => ~ret[p].out.v
            /\ p \in Workers => (ret[p].out.v <=> num_processes # 1)

C8_Witness ==
    /\ num_processes = MaxProcs
    /\ \A p \in Workers : ret[p].op = "is_distributed" /\ ret[p].out.v

\* every worker is blocked in its k-th barrier call, all under one name
AllInBarrier(k) ==
    \A p \in Spawned :
        /\ pc[p] = "blocked"
        /\ frame[p].op = "barrier"
        /\ frame[p].arg = frame[0].arg
        /\ barrier_calls[p] = k

\* C9: where is_distributed is false a barrier call returns at once, without a
\* rendezvous; where it is true no worker returns from its k-th barrier call
\* before every worker entered its k-th, and once every worker is in its k-th
\* call of one name, every worker returns from it
C9_Barrier ==
    /\ [](\A p \in Procs :
              ~Distributed(p) =>
                  barrier_returns[p] = barrier_calls[p] /\ pc[p] \notin {"blocked", "resumed"})
    /\ [](\A p \in Spawned, q \in Spawned :
              Distributed(p) => barrier_returns[p] <= barrier_calls[q])
    /\ \A k \in 1 .. MaxCalls :
           AllInBarrier(k) ~> (\A p \in Spawned : barrier_returns[p] >= k)

C9_Witness ==
    /\ num_processes = MaxProcs
    /\ \A p \in Workers : Distributed(p) /\ barrier_returns[p] = MaxCalls

\* C10: when every worker passes all_gather the zero-dimensional tensor of one
\* value v, every worker gets a one-dimensional tensor of as many elements as
\* there are workers, each of them v; a zero-dimensional tensor reaches the
\* collective with one dimension and is never refused
C10_AllGatherScalar ==
    /\ \A p \in Procs :
           /\ (pc[p] = "blocked" /\ frame[p].op = "all_gather") => mesh[p].data.dim >= 1
           /\ (ret[p].op = "all_gather" /\ ret[p].arg.dim = 0) => ret[p].out.type = "Tensor"
    /\ \A v \in Vals :
           (/\ AllWorkersReturned("all_gather")
            /\ \A p \in Spawned : ret[p].arg.dim = 0 /\ ret[p].arg.data = << v >>)
               => \A p \in Spawned :
                      /\ ret[p].out.dim = 1
                      /\ Len(ret[p].out.data) = num_processes
                      /\ \A i \in 1 .. Len(ret[p].out.data) : ret[p].out.data[i] = v

C10_Witness ==
    /\ num_processes = MaxProcs
    /\ AllWorkersReturned("all_gather")
    /\ \A p \in Workers : /\ ret[p].arg.dim = 0
                          /\ ret[p].arg.data = << MaxVal >>
                          /\ Len(ret[p].out.data) = MaxProcs

\* C11: in a run of more than one worker, when every worker called broadcast
\* with objects of one content and returned, the result of every worker is an
\* object of that content, built from the gathered bytes: saving, gathering the
\* workers' byte buffers and loading give the content back
C11_BroadcastRoundTrip ==
    (/\ num_processes > 1
     /\ AllWorkersReturned("broadcast")
     /\ \A p \in Spawned : ret[p].arg.val = ret[0].arg.val)
        => \A p \in Spawned :
               /\ ret[p].out.type = "object"
               /\ ret[p].out.val = ret[p].arg.val
               /\ ret[p].out.id = LoadedId
               /\ ret[p].dev

C11_Witness ==
    /\ num_processes = MaxProcs
    /\ AllWorkersReturned("broadcast")
    /\ \A p \in Workers : ret[p].arg.val = << MaxVal >> /\ ret[p].out.val = << MaxVal >>

\* the ranks and the world size of the strategy of a process
Ranks(p) == << global_rank[p], local_rank[p], world_size[p] >>

\* the operations a process went through after its worker setup
Operated(p) == ret[p].op # "none" /\ Len(calls[p]) = MaxCalls

C13_LaunchOneWay ==
    /\ [](\A p \in Procs : ~SetUp(p) => ~launched[p])
    /\ [][\A p \in Procs :
              /\ launched[p] => launched'[p]
              /\ (~launched[p] /\ launched'[p]) => pc[p] = "spawned" /\ pc'[p] = "idle"]_vars

C13_Witness ==
    \E p \in Workers :
        /\ launched[p]
        /\ Len(calls[p]) = MaxCalls
        /\ \A n \in 1 .. MaxCalls : calls[p][n].m = "teardown"
        /\ ret[p].op = "teardown"

\* C14: after the worker setup of the worker with process index i, the
\* rank-zero flag of that process is the worker's global rank, which is i, so
\* that of the workers of a run the one of global rank 0, and no other, is
\* flagged as rank zero
C14_RankZeroFlag ==
    /\ \A p \in Procs :
           SetUp(p) => rank_zero_only_rank[p] = global_rank[p] /\ rank_zero_only_rank[p] = p
    /\ (\A p \in Spawned : SetUp(p)) =>
           {p \in Spawned : rank_zero_only_rank[p] = 0} = {p \in Spawned : global_rank[p] = 0}
    /\ (\A p \in Spawned : SetUp(p)) =>
           Cardinality({p \in Spawned : rank_zero_only_rank[p] = 0}) = 1

C14_Witness ==
    /\ num_processes = MaxProcs
    /\ \A p \in Workers : SetUp(p)
    /\ rank_zero_only_rank[MaxProcs - 1] = MaxProcs - 1

\* C15: teardown ends without an error in every process, UNLAUNCHED or
\* LAUNCHED, and reads no device handle; after it PT_XLA_DEBUG is not in the
\* environment of the process, whether it was there before or not; a second
\* teardown ends the same way
C15_Teardown ==
    /\ \A p \in Procs :
           ret[p].op = "teardown" =>
               /\ ret[p].out = PyNone
               /\ ~ret[p].dev
               /\ "PT_XLA_DEBUG" \notin environ[p]
    /\ single_tpu.ret.op = "teardown" =>
           /\ single_tpu.ret.out = PyNone
           /\ ~single_tpu.ret.dev
           /\ "PT_XLA_DEBUG" \notin environ[Parent]

C15_Witness ==
    /\ ~launched[Parent]
    /\ Len(calls[Parent]) >= 2
    /\ calls[Parent][1].m = "teardown"
    /\ calls[Parent][2].m = "teardown"
    /\ ret[Parent].op = "teardown"
    /\ ret[Parent].out = PyNone
    /\ single_tpu.ret.op = "teardown"

\* the last call of a history assigned c to checkpoint_io
LastSet(history, c) ==
    /\ Len(history) > 0
    /\ history[Len(history)].m = "checkpoint_io.setter"
    /\ history[Len(history)].arg = c

\* a read of checkpoint_io that found the field to be before and built `built`
\* instances of the default so far returns out: the collaborator of the field,
\* or, the field being None, an instance of the default that is a new one
LazyRead(before, built, out) ==
    IF before # PyNone THEN out = before
    ELSE out.type = "CheckpointIO" /\ out.cls = "XLACheckpointIO" /\ out.id > built

\* C17: a read of checkpoint_io never returns None, and what it returns is in
\* the field afterwards, so that the next read returns the same instance; a
\* read that finds a collaborator in the field, the one given at construction or
\* the one the setter was given last, returns that collaborator, and a read that
\* finds None builds the default; for TPUSpawnStrategy and SingleTPUStrategy,
\* under every sequence of reads and assignments
C17_CheckpointIoLazy ==
    /\ [](ret[Parent].op = "checkpoint_io" =>
              /\ ret[Parent].out.type = "CheckpointIO"
              /\ ret[Parent].out = checkpoint_io[Parent]
              /\ \A c \in SetterInputs \ {PyNone} :
                     LastSet(calls[Parent], c) => ret[Parent].out = c)
    /\ [](single_tpu.ret.op = "checkpoint_io" =>
              /\ single_tpu.ret.out.type = "CheckpointIO"
              /\ single_tpu.ret.out = single_tpu._checkpoint_io
              /\ \A c \in SetterInputs \ {PyNone} :
                     LastSet(single_tpu.calls, c) => single_tpu.ret.out = c)
    /\ [][/\ (ret'[Parent] # ret[Parent] /\ ret'[Parent].op = "checkpoint_io") =>
                 LazyRead(checkpoint_io[Parent], created[Parent], ret'[Parent].out)
          /\ (single_tpu'.ret # single_tpu.ret /\ single_tpu'.ret.op = "checkpoint_io") =>
                 LazyRead(single_tpu._checkpoint_io, single_tpu.created, single_tpu'.ret.out)
         ]_vars

C17_Witness ==
    /\ created[Parent] = 2
    /\ ret[Parent].op = "checkpoint_io"
    /\ ret[Parent].out = XLACheckpointIO(2)
    /\ single_tpu.ret.op = "checkpoint_io"
    /\ LastSet(single_tpu.calls, CheckpointIO("CheckpointIO", 1))
    /\ single_tpu.ret.out = CheckpointIO("CheckpointIO", 1)

\* the dataloaders at the leaves of a nest of containers
RECURSIVE Leaves(_)
Leaves(data) ==
    IF data.type = "DataLoader" THEN {data}
    ELSE IF data.type = "list" THEN UNION {Leaves(data.items[i]) : i \in DOMAIN data.items}
    ELSE UNION {Leaves(data.items[i].value) : i \in DOMAIN data.items}

\* a dataloader of a dataset without a length in a list in a dict
ListInDict ==
    PyDict(<< [key |-> "a",
               value |-> PyList(<< DataLoader(HeldId, TRUE), DataLoader(HeldId, FALSE) >>)] >>)

\* C16: the validation of dataloaders nested in lists and dicts, to whatever
\* depth, ends with the TypeError exactly when one of the dataloaders at the
\* leaves has a dataset without a length, and passes otherwise
C16_NestedValidation ==
    ret[Parent].op = "_validate_dataloader" =>
        IF \E leaf \in Leaves(ret[Parent].arg) : ~leaf.dataset.has_len
        THEN ret[Parent].out.type = "raise" /\ ret[Parent].out.exc = "TypeError"
        ELSE ret[Parent].out = PyNone

C16_Witness ==
    /\ ret[Parent].op = "_validate_dataloader"
    /\ ret[Parent].arg = ListInDict
    /\ ret[Parent].out.type = "raise"
    /\ ret[Parent].out.exc = "TypeError"

\* the places of a sequence of calls where a call is made
Places(made, call) == {i \in DOMAIN made : made[i] = call}

\* the case optimizer_step refuses: the closure of a LightningModule under
\* automatic optimization returned None
SkippedBackward(arg) ==
    /\ arg.closure_result = PyNone
    /\ arg.model.type = "LightningModule"
    /\ arg.model.automatic_optimization

\* C18: every optimizer_step call runs the closure once, first, and the
\* after-closure hook next; when the closure of a LightningModule under
\* automatic optimization returned None the call ends with the
\* MisconfigurationException and optimizer.step is not called; in every other
\* case optimizer.step is called once, after the closure and the hook, and the
\* call returns
C18_OptimizerStep ==
    \A n \in DOMAIN optimizer_steps :
        LET call == optimizer_steps[n] IN
          /\ Places(call.made, "closure") = {1}
          /\ Places(call.made, "_after_closure") = {2}
          /\ IF SkippedBackward(call.arg)
             THEN /\ call.out.type = "raise"
                  /\ call.out.exc = "MisconfigurationException"
                  /\ Places(call.made, "optimizer.step") = {}
             ELSE /\ call.out = PyNone
                  /\ Places(call.made, "optimizer.step") = {3}

C18_Witness ==
    /\ Len(optimizer_steps) = 2
    /\ SkippedBackward(optimizer_steps[1].arg)
    /\ optimizer_steps[1].out.type = "raise"
    /\ optimizer_steps[2].arg.closure_result = PyNone
    /\ optimizer_steps[2].arg.model.type = "Module"
    /\ Places(optimizer_steps[2].made, "optimizer.step") = {3}

\* C19: process_dataloader of a dataloader whose dataset has no length ends
\* with the TypeError of the validation, UNLAUNCHED or LAUNCHED, before the
\* device handle is read, and returns no adapter; of a dataloader whose dataset
\* has a length, in a worker that ran worker setup, it returns the adapter of
\* that dataloader on the device of the worker, with the dataloader's dataset
\* as its dataset
C19_ProcessDataloader ==
    \A p \in Procs :
        ret[p].op = "process_dataloader" =>
            IF ~ret[p].arg.dataset.has_len
            THEN /\ ret[p].out.type = "raise"
                 /\ ret[p].out.exc = "TypeError"
                 /\ ~ret[p].dev
            ELSE SetUp(p) =>
                     /\ ret[p].out.type = "MpDeviceLoader"
                     /\ ret[p].out.loader = ret[p].arg
                     /\ ret[p].out.device = xla_device(p)
                     /\ ret[p].out.dataset = ret[p].arg.dataset
                     /\ ret[p].dev

C19_Witness ==
    /\ num_processes = MaxProcs
    /\ launched[0]
    /\ ret[0].op = "process_dataloader"
    /\ ~ret[0].arg.dataset.has_len
    /\ ret[0].out.type = "raise"
    /\ ret[MaxProcs - 1].op = "process_dataloader"
    /\ ret[MaxProcs - 1].out.type = "MpDeviceLoader"
    /\ ret[MaxProcs - 1].out.device.ordinal = MaxProcs - 1

\* the outcome of a reduce call that was refused for its operation
RejectedReduce(r) ==
    r.op = "reduce" /\ r.out.type = "raise" /\ r.out.exc = "ValueError"

\* C20: a process is never in the mesh reduction with an operation reduce
\* refuses, and the step in which a reduce call is refused for its operation
\* starts and ends outside every collective, hands nothing to the mesh, and
\* leaves the ranks, the world size and the launch state of the process as
\* they were
C20_RejectedReduceFrame ==
    /\ [](\A p \in Procs :
              (pc[p] \in {"blocked", "resumed"} /\ frame[p].op = "reduce") =>
                  ~Refused(frame[p].arg.reduce_op))
    /\ [][\A p \in Procs :
              (ret'[p] # ret[p] /\ RejectedReduce(ret'[p])) =>
                  /\ Refused(ret'[p].arg.reduce_op)
                  /\ pc[p] = "idle" /\ pc'[p] = "idle"
                  /\ mesh[p] = PyNone /\ mesh'[p] = PyNone
                  /\ delivered'[p] = delivered[p]
                  /\ Ranks(p)' = Ranks(p)
                  /\ launched'[p] = launched[p]]_vars

C20_Witness ==
    /\ num_processes = MaxProcs
    /\ launched[0]
    /\ RejectedReduce(ret[0])
    /\ ret[0].arg.reduce_op = ReduceOpMember("MAX")
    /\ Ranks(0) = << 0, 0, MaxProcs >>
    /\ \A p \in Workers \ {0} : pc[p] = "blocked" /\ frame[p].op = "reduce"
====
